---- MODULE Spec2Model ----
(***************************************************************************)
(* OSPF header dissector (jspcap/link/ospf.py): class OSPF, read_ospf and  *)
(* _read_encrypt_auth, run statement by statement over a byte buffer.      *)
(* The readers _read_unpack / _read_fileng, the wrapper Info and the       *)
(* hand-off _read_next_layer are inherited from modules that are not part  *)
(* of the source tree; they follow the ByteCursor / FieldRecord /          *)
(* LayerChain descriptions of the specification.                           *)
(***************************************************************************)
EXTENDS Integers, Sequences, FiniteSets, TLC

VARIABLES
    TYPE,       \* module-level dict TYPE  (ospf.py 14-20)
    AUTH,       \* module-level dict AUTH  (ospf.py 24-28)
    file,       \* the bytes behind self._file
    start,      \* offset of the OSPF header in the file
    nextKnown,  \* the protocol stack declares a next protocol for this header
    nextFails,  \* the next layer's dissector fails on the bytes after the header
    pos,        \* position of self._file
    pc,         \* statement of __init__ / read_ospf / _read_encrypt_auth to run next
    loc,        \* local variables of read_ospf and _read_encrypt_auth
    ospf,       \* the dict `ospf` of read_ospf (and its return value)
    info,       \* self._info
    chain,      \* what the hand-off to the next layer did
    reported,   \* what a caller read from length, len() and the length hint
    results     \* outcome of each construction on this file, oldest first

vars == <<TYPE, AUTH, file, start, nextKnown, nextFails, pos, pc, loc, ospf,
          info, chain, reported, results>>

-----------------------------------------------------------------------------
(* Bounds of the model.                                                    *)

MaxStart    == 1    \* bytes in front of the OSPF header
MaxExtra    == 2    \* bytes behind the 24-byte header
MaxTypeCode == 6    \* the type byte ranges over 0..MaxTypeCode
MaxAuCode   == 3    \* the low autype byte ranges over 0..MaxAuCode (and 99)
MaxRuns     == 2    \* constructions over the same file

-----------------------------------------------------------------------------
(* Values: the Python objects the dissector handles, tagged by their type. *)

None       == [tag |-> "None",  v |-> 0]
PyInt(n)   == [tag |-> "int",   v |-> n]
PyBytes(s) == [tag |-> "bytes", v |-> s]
PyStr(s)   == [tag |-> "str",   v |-> s]
PyDict(d)  == [tag |-> "dict",  v |-> d]

\* d[k] = v on an insertion-ordered dict: a new key goes last
DictSet(d, k, v) ==
    IF \E i \in 1..Len(d) : d[i].k = k
    THEN [i \in 1..Len(d) |-> IF d[i].k = k THEN [k |-> k, v |-> v] ELSE d[i]]
    ELSE Append(d, [k |-> k, v |-> v])

Keys(d) == [i \in 1..Len(d) |-> d[i].k]

HasKey(d, k) == \E i \in 1..Len(d) : d[i].k = k

Lookup(d, k) == d[CHOOSE i \in 1..Len(d) : d[i].k = k].v

\* dict.get(key): the value, or None when the key is missing
Get(table, key) == IF key \in DOMAIN table THEN PyStr(table[key]) ELSE None

Truthy(x) == ~(x.tag = "None") /\ ~(x.tag = "str" /\ x.v = "")

\* a or b
Or(a, b) == IF Truthy(a) THEN a ELSE b

-----------------------------------------------------------------------------
(* The byte reader.                                                        *)

remaining == Len(file) - pos

CanRead(size) == size <= remaining

read(size) == SubSeq(file, pos + 1, pos + size)

RECURSIVE BigEndian(_)
BigEndian(s) ==
    IF Len(s) = 0 THEN 0
    ELSE 256 * BigEndian(SubSeq(s, 1, Len(s) - 1)) + s[Len(s)]

_read_unpack(size) == PyInt(BigEndian(read(size)))

_read_fileng(size) == PyBytes(read(size))

RECURSIVE Join(_, _)
Join(sep, parts) ==
    IF Len(parts) = 0 THEN ""
    ELSE IF Len(parts) = 1 THEN parts[1]
    ELSE parts[1] \o sep \o Join(sep, Tail(parts))

_read_id_numbers ==
    LET _byte == read(4)
    IN  PyStr(Join(".", [i \in 1..Len(_byte) |-> ToString(_byte[i])]))

-----------------------------------------------------------------------------
(* The files the dissector is run on.                                      *)

HeaderLen == 24

TypeBytes == 0..MaxTypeCode

LenBytes == {<<0, 24>>, <<1, 44>>}

AutypeBytes == {<<hi, lo>> : hi \in {0, 1}, lo \in (0..MaxAuCode) \cup {99}}

AuthBytes == <<1, 2, 7, 16, 10, 11, 12, 13>>

Header(t, l, au) ==
    <<2, t>> \o l \o <<192, 0, 2, 1>> \o <<0, 0, 0, 1>> \o <<171, 205>> \o au
        \o AuthBytes

Padding(n) == [i \in 1..n |-> 69]

Files(s) ==
    {SubSeq(Padding(s) \o Header(t, l, au) \o Padding(MaxExtra), 1, n) :
        t \in TypeBytes, l \in LenBytes, au \in AutypeBytes,
        n \in s..(s + HeaderLen + MaxExtra)}

NoLocals ==
    [_vers |-> None, _type |-> None, _tlen |-> None, _rtid |-> None,
     _area |-> None, _csum |-> None, _autp |-> None,
     _resv |-> None, _keys |-> None, _alen |-> None, _seqn |-> None,
     auth |-> None]

Unset == [tag |-> "unset", v |-> <<>>]

\* OSPF Packet Types
TYPE_dict ==
    (1 :> "Hello" @@ 2 :> "Database Description" @@ 3 :> "Link State Request"
       @@ 4 :> "Link State Update" @@ 5 :> "Link State Acknowledgment")

\* Authentication Types
AUTH_dict ==
    (0 :> "Null Authentication" @@ 1 :> "Simple Password"
       @@ 2 :> "Cryptographic Authentication")

Init ==
    /\ TYPE = TYPE_dict
    /\ AUTH = AUTH_dict
    /\ start \in 0..MaxStart
    /\ file \in Files(start)
    /\ nextKnown \in BOOLEAN
    /\ nextFails \in {f \in BOOLEAN : f => nextKnown}
    /\ pos = start
    /\ pc = "idle"
    /\ loc = NoLocals
    /\ ospf = <<>>
    /\ info = Unset
    /\ chain = "none"
    /\ reported = <<>>
    /\ results = <<>>

-----------------------------------------------------------------------------
(* The hand-off to the next layer and the record wrapper.                  *)

Failed == [tag |-> "failed", v |-> 0]

\* what the chain does with the bytes behind the header
NextLayerSlot ==
    IF remaining = 0 THEN "omitted"
    ELSE IF ~nextKnown THEN "raw"
    ELSE IF nextFails THEN "failed"
    ELSE "nested"

_read_next_layer(dict_) ==
    CASE NextLayerSlot = "omitted" -> dict_
      [] NextLayerSlot = "raw" ->
            DictSet(dict_, "next_layer", PyBytes(read(remaining)))
      [] NextLayerSlot = "failed" -> DictSet(dict_, "next_layer", Failed)
      [] NextLayerSlot = "nested" ->
            DictSet(dict_, "next_layer",
                    PyDict(<<[k |-> "packet", v |-> PyBytes(read(remaining))]>>))

Info(dict_) == [tag |-> "Info", v |-> dict_]

-----------------------------------------------------------------------------
(* class OSPF.                                                             *)

\* length returning the header's own len field
length_from_len == Lookup(info.v, "len").v

length == 24

__len__ == 24

__length_hint__ == 24

\* the failure path publishing the dict built so far
RaisePartial(err) ==
    /\ pc' = "raised"
    /\ info' = Info(ospf)
    /\ results' = Append(results, [ok |-> FALSE, err |-> err, rec |-> <<>>])
    /\ UNCHANGED <<TYPE, AUTH, file, start, nextKnown, nextFails, pos, loc,
                   ospf, chain, reported>>

\* an exception leaves read_ospf and __init__: self._info is never assigned
Raise(err) ==
    /\ pc' = "raised"
    /\ results' = Append(results, [ok |-> FALSE, err |-> err, rec |-> <<>>])
    /\ UNCHANGED <<TYPE, AUTH, file, start, nextKnown, nextFails, pos, loc,
                   ospf, info, chain, reported>>

\* name = self._read_...(size), one statement of read_ospf / _read_encrypt_auth
ReadStep(from, to, name, size, value) ==
    /\ pc = from
    /\ IF CanRead(size)
       THEN /\ pos' = pos + size
            /\ loc' = [loc EXCEPT ![name] = value]
            /\ pc' = to
            /\ UNCHANGED <<TYPE, AUTH, file, start, nextKnown, nextFails,
                           ospf, info, chain, reported, results>>
       ELSE Raise("TruncatedInput")

\* OSPF(_file): a new dissector over the file, cursor at the header's start
__init__ ==
    /\ \/ pc = "idle"
       \/ pc \in {"done", "raised"} /\ Len(results) < MaxRuns
    /\ pos' = start
    /\ loc' = NoLocals
    /\ ospf' = <<>>
    /\ info' = Unset
    /\ chain' = "none"
    /\ reported' = <<>>
    /\ pc' = "l109"
    /\ UNCHANGED <<TYPE, AUTH, file, start, nextKnown, nextFails, results>>

read_ospf_l109 == ReadStep("l109", "l110", "_vers", 1, _read_unpack(1))

read_ospf_l110 == ReadStep("l110", "l111", "_type", 1, _read_unpack(1))

read_ospf_l111 == ReadStep("l111", "l112", "_tlen", 2, _read_unpack(2))

read_ospf_l112 == ReadStep("l112", "l113", "_rtid", 4, _read_id_numbers)

read_ospf_l113 == ReadStep("l113", "l114", "_area", 4, _read_id_numbers)

read_ospf_l114 == ReadStep("l114", "l115", "_csum", 2, _read_fileng(2))

read_ospf_l115 == ReadStep("l115", "l117", "_autp", 2, _read_unpack(2))

\* TYPE.get(_type, _type)
type_value_passthrough(_type) == Or(Get(TYPE, _type.v), _type)

\* TYPE.get(_type)
type_value(_type) == Get(TYPE, _type.v)

\* AUTH.get(_autp)
autype_value_no_fallback(_autp) == Get(AUTH, _autp.v)

\* AUTH.get(_autp) or 'Reserved'
autype_value(_autp) == Or(Get(AUTH, _autp.v), PyStr("Reserved"))

\* the dict literal with len and type exchanged
ospf_dict_reordered ==
    <<[k |-> "version",   v |-> loc._vers],
      [k |-> "len",       v |-> loc._tlen],
      [k |-> "type",      v |-> type_value(loc._type)],
      [k |-> "router_id", v |-> loc._rtid],
      [k |-> "area_id",   v |-> loc._area],
      [k |-> "chksum",    v |-> loc._csum],
      [k |-> "autype",    v |-> autype_value(loc._autp)]>>

\* ospf = dict(version = ..., ..., autype = ...)
ospf_dict ==
    <<[k |-> "version",   v |-> loc._vers],
      [k |-> "type",      v |-> type_value(loc._type)],
      [k |-> "len",       v |-> loc._tlen],
      [k |-> "router_id", v |-> loc._rtid],
      [k |-> "area_id",   v |-> loc._area],
      [k |-> "chksum",    v |-> loc._csum],
      [k |-> "autype",    v |-> autype_value(loc._autp)]>>

\* the dict built with AUTH.setdefault(_autp, 'Reserved')
read_ospf_l117_setdefault ==
    /\ pc = "l117"
    /\ ospf' = ospf_dict
    /\ AUTH' = IF loc._autp.v \in DOMAIN AUTH THEN AUTH
               ELSE AUTH @@ (loc._autp.v :> "Reserved")
    /\ pc' = "l127"
    /\ UNCHANGED <<TYPE, file, start, nextKnown, nextFails, pos, loc,
                   info, chain, reported, results>>

read_ospf_l117 ==
    /\ pc = "l117"
    /\ ospf' = ospf_dict
    /\ pc' = "l127"
    /\ UNCHANGED <<TYPE, AUTH, file, start, nextKnown, nextFails, pos, loc,
                   info, chain, reported, results>>

\* if _autp & 0xFF == 2
is_encrypt_low_byte(_autp) == _autp.v % 256 = 2

\* if _autp == 2
is_encrypt(_autp) == _autp.v = 2

read_ospf_l127 ==
    /\ pc = "l127"
    /\ pc' = IF is_encrypt(loc._autp) THEN "l159" ELSE "l130"
    /\ UNCHANGED <<TYPE, AUTH, file, start, nextKnown, nextFails, pos, loc,
                   ospf, info, chain, reported, results>>

\* ospf['auth'] = self._read_fileng(8)
read_ospf_l130 ==
    /\ pc = "l130"
    /\ IF CanRead(8)
       THEN /\ pos' = pos + 8
            /\ ospf' = DictSet(ospf, "auth", _read_fileng(8))
            /\ pc' = "l132"
            /\ UNCHANGED <<TYPE, AUTH, file, start, nextKnown, nextFails,
                           loc, info, chain, reported, results>>
       ELSE Raise("TruncatedInput")

_read_encrypt_auth_l159 == ReadStep("l159", "l160", "_resv", 2, _read_fileng(2))

_read_encrypt_auth_l160 == ReadStep("l160", "l161", "_keys", 1, _read_unpack(1))

_read_encrypt_auth_l161 == ReadStep("l161", "l162", "_alen", 1, _read_unpack(1))

\* _seqn = self._read_unpack(2)
_read_encrypt_auth_l162_short ==
    ReadStep("l162", "l164", "_seqn", 2, _read_unpack(2))

_read_encrypt_auth_l162 == ReadStep("l162", "l164", "_seqn", 4, _read_unpack(4))

\* auth = dict(resv = ..., key_id = ..., len = ..., seq = ...)
auth_dict ==
    <<[k |-> "resv",   v |-> loc._resv],
      [k |-> "key_id", v |-> loc._keys],
      [k |-> "len",    v |-> loc._alen],
      [k |-> "seq",    v |-> loc._seqn]>>

\* return auth, and ospf['auth'] = ... in read_ospf
_read_encrypt_auth_l164 ==
    /\ pc = "l164"
    /\ loc' = [loc EXCEPT !.auth = PyDict(auth_dict)]
    /\ ospf' = DictSet(ospf, "auth", PyDict(auth_dict))
    /\ pc' = "l132"
    /\ UNCHANGED <<TYPE, AUTH, file, start, nextKnown, nextFails, pos,
                   info, chain, reported, results>>

\* the hand-off letting a failure of the next layer's decode escape
read_ospf_l132_propagate ==
    /\ pc = "l132"
    /\ IF NextLayerSlot = "failed"
       THEN Raise("NextLayerFailed")
       ELSE /\ ospf' = _read_next_layer(ospf)
            /\ chain' = NextLayerSlot
            /\ pos' = IF NextLayerSlot \in {"raw", "nested"} THEN Len(file) ELSE pos
            /\ pc' = "l65"
            /\ UNCHANGED <<TYPE, AUTH, file, start, nextKnown, nextFails, loc,
                           info, reported, results>>

\* the hand-off refusing bytes no known protocol claims
read_ospf_l132_strict ==
    /\ pc = "l132"
    /\ IF NextLayerSlot = "raw"
       THEN Raise("UnknownNextLayer")
       ELSE /\ ospf' = _read_next_layer(ospf)
            /\ chain' = NextLayerSlot
            /\ pos' = IF NextLayerSlot \in {"raw", "nested"} THEN Len(file) ELSE pos
            /\ pc' = "l65"
            /\ UNCHANGED <<TYPE, AUTH, file, start, nextKnown, nextFails, loc,
                           info, reported, results>>

\* return self._read_next_layer(ospf)
read_ospf_l132 ==
    /\ pc = "l132"
    /\ ospf' = _read_next_layer(ospf)
    /\ chain' = NextLayerSlot
    /\ pos' = IF NextLayerSlot \in {"raw", "nested"} THEN Len(file) ELSE pos
    /\ pc' = "l65"
    /\ UNCHANGED <<TYPE, AUTH, file, start, nextKnown, nextFails, loc,
                   info, reported, results>>

\* self._info = Info(self.read_ospf())
__init___l65 ==
    /\ pc = "l65"
    /\ info' = Info(ospf)
    /\ results' = Append(results, [ok |-> TRUE, err |-> "", rec |-> ospf])
    /\ pc' = "done"
    /\ UNCHANGED <<TYPE, AUTH, file, start, nextKnown, nextFails, pos, loc,
                   ospf, chain, reported>>

\* a caller reads the length property, len() and the length hint
ReadLength ==
    /\ pc = "done"
    /\ reported = <<>>
    /\ reported' = <<length, __len__, __length_hint__>>
    /\ UNCHANGED <<TYPE, AUTH, file, start, nextKnown, nextFails, pos, pc,
                   loc, ospf, info, chain, results>>

Next ==
    \/ __init__
    \/ read_ospf_l109
    \/ read_ospf_l110
    \/ read_ospf_l111
    \/ read_ospf_l112
    \/ read_ospf_l113
    \/ read_ospf_l114
    \/ read_ospf_l115
    \/ read_ospf_l117
    \/ read_ospf_l127
    \/ read_ospf_l130
    \/ _read_encrypt_auth_l159
    \/ _read_encrypt_auth_l160
    \/ _read_encrypt_auth_l161
    \/ _read_encrypt_auth_l162
    \/ _read_encrypt_auth_l164
    \/ read_ospf_l132
    \/ __init___l65
    \/ ReadLength

Spec == Init /\ [][Next]_vars

TypeOK ==
    /\ start <= pos /\ pos <= Len(file)
    /\ Len(results) <= MaxRuns

-----------------------------------------------------------------------------
(* The header as laid out on the wire (RFC 2328), read off the file.       *)

\* bytes of the file from the header's start on
Avail == Len(file) - start

\* byte at offset i of the header
At(i) == file[start + i + 1]

\* bytes at offsets a..b of the header
Slice(a, b) == [i \in 1..(b - a + 1) |-> At(a + i - 1)]

RawType == At(1)

RawAutype == 256 * At(14) + At(15)

Decoded == pc = "done" /\ info.tag = "Info"

HeaderKeys ==
    <<"version", "type", "len", "router_id", "area_id", "chksum", "autype",
      "auth">>

CryptoAuth ==
    <<[k |-> "resv",   v |-> PyBytes(Slice(16, 17))],
      [k |-> "key_id", v |-> PyInt(At(18))],
      [k |-> "len",    v |-> PyInt(At(19))],
      [k |-> "seq",    v |-> PyInt(16777216 * At(20) + 65536 * At(21)
                                     + 256 * At(22) + At(23))]>>

-----------------------------------------------------------------------------
(* Properties.                                                             *)

\* C1: in every decoded record the shape of auth follows the raw 2-byte
\* autype code at offset 14 alone: code 2 gives the nested record with the
\* keys resv, key_id, len, seq read from bytes 16..23 (seq big-endian), every
\* other code gives the 8 raw bytes 16..23 unchanged.
C1_AuthShape ==
    Decoded =>
        LET auth == Lookup(info.v, "auth")
        IN  IF RawAutype = 2
            THEN auth.tag = "dict" /\ auth.v = CryptoAuth
            ELSE auth = PyBytes(Slice(16, 23))

C1_Witness ==
    /\ Decoded
    /\ RawAutype = 2
    /\ Lookup(info.v, "auth").tag = "dict"

\* C2: on a file with fewer than 24 bytes from the header's start the
\* construction never completes: self._info stays unassigned, the hand-off
\* is never reached, a construction under way can always take its next step
\* (so it runs into the failure), and every recorded outcome is the
\* TruncatedInput failure without a record.
C2_Truncated ==
    Avail < HeaderLen =>
        /\ info = Unset
        /\ pc \notin {"l132", "l65", "done"}
        /\ pc \notin {"idle", "raised"} => ENABLED Next
        /\ \A i \in 1..Len(results) :
              results[i] = [ok |-> FALSE, err |-> "TruncatedInput", rec |-> <<>>]

\* the failure strikes after seven fields were already put in the local dict
C2_Witness ==
    /\ Avail < HeaderLen
    /\ pc = "raised"
    /\ Len(ospf) = 7
    /\ info = Unset

\* name the packet-type table gives a code, per RFC 2328 A.3.1
TypeName(code) ==
    CASE code = 1 -> "Hello"
      [] code = 2 -> "Database Description"
      [] code = 3 -> "Link State Request"
      [] code = 4 -> "Link State Update"
      [] code = 5 -> "Link State Acknowledgment"

\* C3 as stated: the type field holds the mapped name for codes 1..5 and the
\* raw numeric code that was read for every other code.
C3_Original ==
    Decoded =>
        Lookup(info.v, "type") =
            IF RawType \in 1..5 THEN PyStr(TypeName(RawType)) ELSE PyInt(RawType)

\* C3 amended: a type code outside 1..5 never fails the decode; the type
\* field holds the mapped name for codes 1..5 and None (not the raw code)
\* for every other code.
C3_TypeField ==
    /\ Avail >= HeaderLen => pc # "raised"
    /\ Decoded =>
        Lookup(info.v, "type") =
            IF RawType \in 1..5 THEN PyStr(TypeName(RawType)) ELSE None

C3_Witness ==
    /\ Decoded
    /\ RawType \notin 1..5
    /\ Lookup(info.v, "type") = None

\* the eight header fields of a decoded record are the ones read_ospf built
HeaderIntact ==
    /\ Len(info.v) >= 8
    /\ SubSeq(info.v, 1, 7) = ospf_dict
    /\ info.v[8].k = "auth"
    /\ info.v[8].v = IF RawAutype = 2 THEN PyDict(CryptoAuth)
                     ELSE PyBytes(Slice(16, 23))

C5_Consumption ==
    /\ pc = "l109" => pos - start = 0
    /\ pc = "l110" => pos - start = 1
    /\ pc = "l111" => pos - start = 2
    /\ pc = "l112" => pos - start = 4
    /\ pc = "l113" => pos - start = 8
    /\ pc = "l114" => pos - start = 12
    /\ pc = "l115" => pos - start = 14
    /\ pc \in {"l117", "l127", "l130", "l159"} => pos - start = 16
    /\ pc = "l160" => pos - start = 18
    /\ pc = "l161" => pos - start = 19
    /\ pc = "l162" => pos - start = 20
    /\ pc \in {"l164", "l132"} => pos - start = HeaderLen

C5_Witness ==
    /\ pc = "l132"
    /\ RawAutype = 2
    /\ loc._seqn.tag = "int"
    /\ pos - start = HeaderLen

\* C6: whatever a caller reads from the length property, len() and the
\* length hint of a dissector that decoded its header is 24, whatever the
\* record's len field holds and whichever variant of auth was taken.
C6_Length ==
    (Decoded /\ reported # <<>>) => reported = <<24, 24, 24>>

C6_Witness ==
    /\ Decoded
    /\ reported # <<>>
    /\ Lookup(info.v, "len") = PyInt(300)
    /\ RawAutype = 2

\* name the authentication-type table gives a code, per RFC 2328 A.3.1
AuthName(code) ==
    CASE code = 0 -> "Null Authentication"
      [] code = 1 -> "Simple Password"
      [] code = 2 -> "Cryptographic Authentication"
      [] OTHER    -> "Reserved"

\* C7: the autype field is the table name for the raw codes 0, 1, 2 and the
\* string "Reserved" for every other code; an unmapped code never fails the
\* decode and its auth field is the 8 raw bytes.
C7_Autype ==
    /\ Avail >= HeaderLen => pc # "raised"
    /\ Decoded =>
        /\ Lookup(info.v, "autype") = PyStr(AuthName(RawAutype))
        /\ RawAutype \notin {0, 1, 2} =>
              Lookup(info.v, "auth") = PyBytes(Slice(16, 23))

C7_Witness ==
    /\ Decoded
    /\ RawAutype = 99
    /\ Lookup(info.v, "autype") = PyStr("Reserved")

\* C8: with a complete header the decode never fails for want of a known
\* next protocol: when none is known and bytes remain, those bytes are
\* attached to the record as they are; when no byte remains there is no
\* next-layer slot.
C8_UnknownNextLayer ==
    (Avail >= HeaderLen /\ (~nextKnown \/ Avail = HeaderLen)) =>
        /\ pc # "raised"
        /\ Decoded =>
            /\ HeaderIntact
            /\ IF Avail > HeaderLen
               THEN /\ HasKey(info.v, "next_layer")
                    /\ Lookup(info.v, "next_layer")
                          = PyBytes(Slice(HeaderLen, Avail - 1))
               ELSE ~HasKey(info.v, "next_layer")

C8_Witness ==
    /\ Decoded
    /\ ~nextKnown
    /\ Avail > HeaderLen
    /\ chain = "raw"

C10_Idempotent ==
    /\ TYPE = TYPE_dict
    /\ AUTH = AUTH_dict
    /\ \A i, j \in 1..Len(results) : results[i] = results[j]

C10_Witness ==
    /\ Len(results) = 2
    /\ results[1].ok
    /\ results[2].ok
    /\ RawAutype = 99

====
